---- MODULE Spec2Model ----
(***************************************************************************)
(* Model of dea.py, the data entry automation tool: the row validator, the *)
(* field setter and the run loop of main() with its outcome log.           *)
(***************************************************************************)
EXTENDS Integers, Sequences, FiniteSets, TLC

(***************************************************************************)
(* Bounds of the model.                                                    *)
(***************************************************************************)
\* rows of the tabular source
NumRows == 2
\* records of the outcome log that exists before the run
MaxPrior == 2

(***************************************************************************)
(* Python values.  Every value is a record with the same two fields, so    *)
(* that values of different Python types can be compared.                  *)
(***************************************************************************)
PyNone == [t |-> "None", s |-> ""]
PyNaN == [t |-> "nan", s |-> ""]
PyStr(x) == [t |-> "str", s |-> x]
\* a key that a dict does not have (dict.get then yields its default)
NoKey == [t |-> "absent", s |-> ""]
\* an exception raised instead of a value returned
Raised(x) == [t |-> "raise", s |-> x]

\* str(v)
StrOf(v) == IF v.t = "str" THEN v.s ELSE IF v.t = "nan" THEN "nan" ELSE "None"

\* isinstance(v, float) and pd.isna(v)
IsNaN(v) == v.t = "nan"

\* bool(v) for None and strings
Truthy(v) == v.t = "str" /\ v.s # ""

\* d.get(key, default) for a key whose entry is v (NoKey when missing)
DictGet(v, default) == IF v = NoKey THEN default ELSE v

\* row.get(col, None)
RowGet(row, col) == IF col \in DOMAIN row THEN row[col] ELSE PyNone

(***************************************************************************)
(* FieldRule and the validator entries of the mapping.                     *)
(***************************************************************************)
\* FieldRule(selector, type, required, default, validators); validators is
\* a sequence, empty for None or []
FieldRule(selector, type, required, default, validators) ==
    [selector |-> selector, type |-> type, required |-> required,
     default |-> default, validators |-> validators]

\* one entry of rule.validators: a dict with the keys type, pattern or
\* values, and message (NoKey when the mapping does not give one)
Validator(type, pattern, values, message) ==
    [type |-> type, pattern |-> pattern, values |-> values, message |-> message]

\* re.fullmatch(pattern, s) raises re.error for a pattern that does not compile
Malformed(pattern) == pattern = "("

\* the strings over which the patterns of the model are evaluated
Strings == {"", "a@b.com", "bad", "US", "FR", "nan", "None"}

\* the strings of Strings that a pattern matches over their entire span
Language(pattern) ==
    CASE pattern = ".+@.+" -> {"a@b.com"}
      [] pattern = "[A-Z]+" -> {"US", "FR"}
      [] pattern = ".*" -> Strings
      [] OTHER -> {}

\* re.fullmatch(pattern, s) is not None
FullMatch(pattern, s) == s \in Language(pattern)

\* the repr of a list of strings, as an f-string prints it
RECURSIVE ReprItems(_)
ReprItems(vs) ==
    IF Len(vs) = 0 THEN ""
    ELSE IF Len(vs) = 1 THEN "'" \o vs[1] \o "'"
    ELSE "'" \o vs[1] \o "', " \o ReprItems(Tail(vs))
ReprList(vs) == "[" \o ReprItems(vs) \o "]"

\* set(map(str, vd["values"]))
ValueSet(vs) == {vs[i] : i \in 1..Len(vs)}

\* the loop went on to the next validator or field without returning
Continue == [t |-> "continue", s |-> ""]

\* lines 42-44: the regex branch of one validator
RegexCheck(col, val, vd) ==
    IF vd.type = "regex" /\ val # PyNone /\ StrOf(val) # ""
    THEN IF Malformed(vd.pattern) THEN Raised("re.error")
         ELSE IF ~FullMatch(vd.pattern, StrOf(val))
              THEN DictGet(vd.message, PyStr("Invalid value for " \o col))
              ELSE Continue
    ELSE Continue

\* lines 45-47: the enum branch of one validator
EnumCheck(col, val, vd) ==
    IF vd.type = "enum" /\ val # PyNone
    THEN IF StrOf(val) \notin ValueSet(vd.values)
         THEN DictGet(vd.message,
                      PyStr(col \o " must be one of " \o ReprList(vd.values)))
         ELSE Continue
    ELSE Continue

\* a validator loop that reports the last failing validator, not the first
RECURSIVE RunValidatorsLastWins(_, _, _, _)
RunValidatorsLastWins(col, val, vds, j) ==
    IF j > Len(vds) THEN Continue
    ELSE LET rest == RunValidatorsLastWins(col, val, vds, j + 1)
             r == RegexCheck(col, val, vds[j])
         IN IF rest # Continue THEN rest
            ELSE IF r # Continue THEN r
            ELSE EnumCheck(col, val, vds[j])

\* lines 41-47: the validators of one field from position j on
RECURSIVE RunValidators(_, _, _, _)
RunValidators(col, val, vds, j) ==
    IF j > Len(vds) THEN Continue
    ELSE LET r == RegexCheck(col, val, vds[j]) IN
         IF r # Continue THEN r
         ELSE LET e == EnumCheck(col, val, vds[j]) IN
              IF e # Continue THEN e
              ELSE RunValidators(col, val, vds, j + 1)

\* line 38: the cell is empty, the field is required and has no default
MissingRequired(val, rule) ==
    /\ (val = PyNone \/ IsNaN(val) \/ StrOf(val) = "")
    /\ rule.required
    /\ rule.default = PyNone

\* lines 36-48: the fields from position i on; fields is the ordered mapping
\* as a sequence of [col, rule]
RECURSIVE ValidateFrom(_, _, _)
ValidateFrom(row, fields, i) ==
    IF i > Len(fields) THEN PyNone
    ELSE LET col == fields[i].col
             rule == fields[i].rule
             val == RowGet(row, col)
         IN IF MissingRequired(val, rule)
            THEN PyStr("Missing required field: " \o col)
            ELSE LET r == RunValidators(col, val, rule.validators, 1) IN
                 IF r # Continue THEN r
                 ELSE ValidateFrom(row, fields, i + 1)

\* validate_row(row, fields): None, the reason, or an exception raised
validate_row(row, fields) == ValidateFrom(row, fields, 1)

(***************************************************************************)
(* coerce_truthy and set_field.                                            *)
(***************************************************************************)
\* s.strip() on the strings of the model
Strip(s) ==
    CASE s = " yes " -> "yes"
      [] s = "yes " -> "yes"
      [] s = " 1" -> "1"
      [] s = " " -> ""
      [] OTHER -> s

\* s.lower() on the strings of the model
Lower(s) ==
    CASE s = "YES" -> "yes"
      [] s = "Yes" -> "yes"
      [] s = "True" -> "true"
      [] s = "TRUE" -> "true"
      [] s = "On" -> "on"
      [] s = "ON" -> "on"
      [] s = "Y" -> "y"
      [] s = "T" -> "t"
      [] s = "No" -> "no"
      [] s = "US" -> "us"
      [] s = "CA" -> "ca"
      [] s = "FR" -> "fr"
      [] s = "None" -> "none"
      [] OTHER -> s

\* a coercion that forgets to lower the case
coerce_truthyCaseSensitive(v) ==
    Strip(StrOf(v)) \in {"1", "true", "yes", "y", "on", "t"}

\* coerce_truthy(v)
coerce_truthy(v) ==
    Lower(Strip(StrOf(v))) \in {"1", "true", "yes", "y", "on", "t"}

\* no exception
NoExc == [cls |-> "", msg |-> ""]
Exc(cls, msg) == [cls |-> cls, msg |-> msg]

\* what driver.find_element finds for a selector on the loaded page
NoElement == [present |-> FALSE, broken |-> FALSE, selected |-> FALSE,
              text |-> "", options |-> {}]
Element(broken, selected) ==
    [present |-> TRUE, broken |-> broken, selected |-> selected,
     text |-> "old", options |-> {"US", "CA"}]
Elements ==
    {NoElement, Element(TRUE, FALSE), Element(FALSE, FALSE), Element(FALSE, TRUE)}

\* a checkbox branch that clicks whenever the value is truthy
CheckboxClicksWhenTruthy(elem, value) == IF coerce_truthy(value) THEN 1 ELSE 0

\* lines 60-62: the clicks the checkbox branch makes on the element
CheckboxClicks(elem, value) ==
    IF elem.selected # coerce_truthy(value) THEN 1 ELSE 0

\* elem.click() on a checkbox toggles it
Click(elem) == [elem EXCEPT !.selected = ~elem.selected]

\* a set_field that lets a type it does not know pass
UnsupportedTypeIgnored(t) == NoExc

\* line 64: raise ValueError(f"Unsupported field type: {t}")
UnsupportedType(t) == Exc("ValueError", "Unsupported field type: " \o t)

\* set_field(driver, rule, value) on the element elem that rule.selector
\* locates: the element afterwards, the clicks made and the exception raised
set_field(elem, rule, value) ==
    LET res(e, clicks, exc) == [elem |-> e, clicks |-> clicks, exc |-> exc]
        t == rule.type
        stale == Exc("WebDriverException", "Message: element not interactable")
    IN IF ~elem.present
       THEN res(elem, 0, Exc("NoSuchElementException", "Message: no such element"))
       ELSE IF t = "input"
       THEN IF elem.broken THEN res(elem, 0, stale)
            ELSE res([elem EXCEPT !.text = IF value = PyNone THEN "" ELSE StrOf(value)],
                     0, NoExc)
       ELSE IF t = "select"
       THEN IF elem.broken THEN res(elem, 0, stale)
            ELSE IF StrOf(value) \notin elem.options
            THEN res(elem, 0, Exc("NoSuchElementException",
                                  "Message: Cannot locate option with value: "
                                      \o StrOf(value)))
            ELSE res([elem EXCEPT !.text = StrOf(value)], 0, NoExc)
       ELSE IF t = "checkbox"
       THEN IF elem.broken THEN res(elem, 0, stale)
            ELSE IF CheckboxClicks(elem, value) = 1
            THEN res(Click(elem), 1, NoExc)
            ELSE res(elem, 0, NoExc)
       ELSE res(elem, 0, UnsupportedType(t))

(***************************************************************************)
(* The inputs of a run: the mapping, the table, the arguments and the      *)
(* outcome log left by earlier runs.                                       *)
(***************************************************************************)
ReEmail(message) == Validator("regex", ".+@.+", <<>>, message)
ReBroken == Validator("regex", "(", <<>>, NoKey)
EnumCountry == Validator("enum", "", <<"US", "CA">>, NoKey)

EmailRule(validators) == FieldRule("#email", "input", TRUE, PyNone, validators)
CountryRule(type) == FieldRule("#country", type, FALSE, PyStr("US"), <<EnumCountry>>)

\* success_check of the mapping: a dict with the keys selector and
\* text_contains, each NoKey when not given ({} when both are missing)
SuccessCheck(selector, text_contains) ==
    [selector |-> selector, text_contains |-> text_contains]

\* the dict load_mapping returns
Mapping(fields, success_check) ==
    [url |-> "http://form", submit_selector |-> "#submit",
     success_check |-> success_check, fields |-> fields]

Fields(emailRule, countryRule) ==
    << [col |-> "email", rule |-> emailRule], [col |-> "country", rule |-> countryRule] >>

Mappings ==
    { Mapping(Fields(EmailRule(<<ReEmail(NoKey)>>), CountryRule("select")),
              SuccessCheck(PyStr("#msg"), PyStr("Thank you"))),
      Mapping(Fields(EmailRule(<<ReEmail(PyStr(""))>>), CountryRule("checkbox")),
              SuccessCheck(NoKey, NoKey)),
      Mapping(Fields(EmailRule(<<ReEmail(PyStr("bad email"))>>), CountryRule("radio")),
              SuccessCheck(PyStr("#msg"), NoKey)),
      Mapping(Fields(EmailRule(<<ReBroken>>), CountryRule("select")),
              SuccessCheck(NoKey, NoKey)) }

\* a row of the table as pandas reads it: an empty cell is NaN
TableRow(email, country) == [c \in {"email", "country"} |->
                                 IF c = "email" THEN email ELSE country]
TableRows ==
    { TableRow(PyStr("a@b.com"), PyStr("US")),
      TableRow(PyNaN, PyStr("US")),
      TableRow(PyStr("bad"), PyNaN) }

\* read_table(path): the rows with their 0-based index labels
Tables ==
    { [i \in 1..NumRows |-> [index |-> i - 1, cells |-> t[i]]] :
        t \in [1..NumRows -> TableRows] }

\* --filter: a pandas query comparing one column with a string ("" when
\* the option is not given)
Filter(expr, col, val) == [expr |-> expr, col |-> col, val |-> val]
Filters == {Filter("", "", ""), Filter("country == 'US'", "country", "US")}

\* the parsed arguments; end = 0 stands for a missing --end (None and 0 are
\* both false in "if args.end")
ArgSets ==
    [start : 1..NumRows, end : 0..(NumRows - 1), filter : Filters,
     dry_run : BOOLEAN, resume : BOOLEAN]

\* the decimal text of a small natural number, and int() of such a text
Digits == <<"0", "1", "2", "3", "4", "5", "6", "7", "8", "9">>
RECURSIVE DecStr(_)
DecStr(n) == IF n < 10 THEN Digits[n + 1]
             ELSE DecStr(n \div 10) \o Digits[(n % 10) + 1]
ParseInt(text) == CHOOSE n \in 0..99 : DecStr(n) = text

\* one line of the outcome log: the three cells as csv writes them
CsvLine(row, status, message) == [row |-> row, status |-> status, message |-> message]
Header == CsvLine("row", "status", "message")

\* the records earlier runs can have left for the rows of the table
PriorRecords ==
    { CsvLine(DecStr(n), "success", "") : n \in 1..NumRows } \cup
    { CsvLine(DecStr(n), "failed", "form error: TimeoutException") : n \in 1..NumRows }

RECURSIVE SeqsUpTo(_, _)
SeqsUpTo(S, n) ==
    IF n = 0 THEN {<<>>}
    ELSE LET shorter == SeqsUpTo(S, n - 1) IN
         shorter \cup {Append(q, x) : q \in shorter, x \in S}

\* the outcome log before the run: absent, or with or without its header
\* line (a log that was created empty never gets one, see line 110)
NoFile == [exists |-> FALSE, lines |-> <<>>]
PriorFiles ==
    {NoFile} \cup
    { [exists |-> TRUE, lines |-> h \o q] :
        h \in {<<>>, <<Header>>}, q \in SeqsUpTo(PriorRecords, MaxPrior) }

(***************************************************************************)
(* Slicing, filtering and the resume set (lines 97-108).                   *)
(***************************************************************************)
\* the positions 1..n that the Python slice [lo:hi] keeps (hi = n when the
\* slice has no stop)
SliceBound(n, b) == IF b < 0 THEN (IF n + b < 0 THEN 0 ELSE n + b)
                    ELSE IF b > n THEN n ELSE b
PySlice(rows, lo, hi) ==
    SubSeq(rows, SliceBound(Len(rows), lo) + 1, SliceBound(Len(rows), hi))

\* line 98: df.iloc[start-1 : end] if args.end else df.iloc[start-1 :]
SliceRows(rows, start, end) ==
    IF end # 0 THEN PySlice(rows, start - 1, end)
    ELSE PySlice(rows, start - 1, Len(rows))

\* lines 99-100: df.query(args.filter); a NaN cell equals no string
RowPasses(r, filter) == r.cells[filter.col] = PyStr(filter.val)
QueryRows(rows, filter) ==
    IF filter.expr # "" THEN SelectSeq(rows, LAMBDA r : RowPasses(r, filter))
    ELSE rows

\* csv.DictReader: the first line names the columns, every later line is
\* a dict under those names; r.get(key) of such a dict (a later column
\* wins when two carry the same name)
DictReaderGet(names, line, key) ==
    IF names.message = key THEN PyStr(line.message)
    ELSE IF names.status = key THEN PyStr(line.status)
    ELSE IF names.row = key THEN PyStr(line.row)
    ELSE PyNone

\* lines 102-108: the row numbers the log records as success
ResumeSet(lines) ==
    IF Len(lines) = 0 THEN {}
    ELSE { ParseInt(DictReaderGet(lines[1], lines[i], "row").s) :
             i \in { j \in 2..Len(lines) :
                       DictReaderGet(lines[1], lines[j], "status") = PyStr("success") } }

(***************************************************************************)
(* The state of a run of main().                                           *)
(***************************************************************************)
VARIABLES
    pc,         \* where main() is
    args,       \* the parsed arguments
    cfg,        \* the mapping
    df,         \* the rows left after slicing and filtering
    outFile,    \* the outcome log on disk when the run started
    processed,  \* the resume set
    written,    \* the lines given to the csv writer by this run
    flushed,    \* how many of them have reached the file on disk
    outOpen,    \* out_f is open
    driver,     \* the browser session: "none", "running" or "quit"
    idx,        \* position of the loop in df (0-based)
    fi,         \* position of the fill loop in cfg.fields (1-based)
    err,        \* what validate_row returned for the current row
    calls,      \* the calls made on the driver for the current row
    successes,
    fails,
    summary,    \* the summary line printed, <<>> before
    exitCode    \* the exit status of the process, -1 while it runs

vars == <<pc, args, cfg, df, outFile, processed, written, flushed, outOpen,
          driver, idx, fi, err, calls, successes, fails, summary, exitCode>>

NoArgs == [start |-> 1, end |-> 0, filter |-> Filter("", "", ""),
           dry_run |-> FALSE, resume |-> FALSE]
NoCfg == Mapping(<<>>, SuccessCheck(NoKey, NoKey))

Init ==
    /\ pc = "start"
    /\ outFile \in PriorFiles
    /\ args = NoArgs
    /\ cfg = NoCfg
    /\ df = <<>>
    /\ processed = {}
    /\ written = <<>>
    /\ flushed = 0
    /\ outOpen = FALSE
    /\ driver = "none"
    /\ idx = 0
    /\ fi = 0
    /\ err = PyNone
    /\ calls = <<>>
    /\ successes = 0
    /\ fails = 0
    /\ summary = <<>>
    /\ exitCode = -1

\* line 128: row_no = args.start + idx
row_no == args.start + idx

\* line 133: the current row as a dict, NaN cells turned into None
row_dict ==
    [c \in DOMAIN df[idx + 1].cells |->
        IF IsNaN(df[idx + 1].cells[c]) THEN PyNone ELSE df[idx + 1].cells[c]]

\* the outcome log on disk
FileLines == outFile.lines \o SubSeq(written, 1, flushed)

\* writer.writerow(...): the line enters the buffer of out_f; when the
\* buffer fills, the lines before it, or all lines, go to disk
WriteRow(status, message) ==
    /\ written' = Append(written, CsvLine(DecStr(row_no), status, message))
    /\ flushed' \in {flushed, Len(written), Len(written) + 1}

\* a finally clause that closes the log and leaves the browser running
FinallyKeepsBrowser ==
    /\ flushed' = Len(written)
    /\ outOpen' = FALSE
    /\ driver' = driver

\* lines 170-172: out_f.close() and driver.quit()
Finally ==
    /\ flushed' = Len(written)
    /\ outOpen' = FALSE
    /\ driver' = "quit"

(***************************************************************************)
(* The steps of main().                                                    *)
(***************************************************************************)
\* lines 94-114: load the mapping and the table, slice and filter, build
\* the resume set, open the log for appending and write the header when
\* the file did not exist
StartRun ==
    /\ pc = "start"
    /\ \E m \in Mappings, table \in Tables, a \in ArgSets :
        /\ cfg' = m
        /\ args' = a
        /\ df' = QueryRows(SliceRows(table, a.start, a.end), a.filter)
        /\ processed' = IF a.resume /\ outFile.exists
                        THEN ResumeSet(outFile.lines) ELSE {}
    /\ written' = IF ~outFile.exists THEN <<Header>> ELSE <<>>
    /\ flushed' = 0
    /\ outOpen' = TRUE
    /\ pc' = "launch"
    /\ UNCHANGED <<outFile, driver, idx, fi, err, calls, successes, fails,
                   summary, exitCode>>

\* lines 117-124: the browser starts, or main returns 2 with out_f still
\* open (the interpreter writes its buffer out when the process ends)
LaunchBrowser ==
    /\ pc = "launch"
    /\ \/ /\ driver' = "running"
          /\ pc' = "row"
          /\ UNCHANGED <<exitCode, flushed>>
       \/ /\ pc' = "exit"
          /\ exitCode' = 2
          /\ flushed' = Len(written)
          /\ UNCHANGED driver
    /\ UNCHANGED <<args, cfg, df, outFile, processed, written, outOpen,
                   idx, fi, err, calls, successes, fails, summary>>

\* the except clauses of lines 162-167: the failed record of the row
FailureMessage(exc) ==
    IF exc.cls \in {"TimeoutException", "NoSuchElementException"}
    THEN "form error: " \o exc.cls
    ELSE exc.msg

\* an except clause that forgets to count the failure
LogFailureUncounted(exc) ==
    /\ WriteRow("failed", FailureMessage(exc))
    /\ idx' = idx + 1
    /\ pc' = "row"
    /\ UNCHANGED <<successes, fails, fi>>

LogFailure(exc) ==
    /\ WriteRow("failed", FailureMessage(exc))
    /\ fails' = fails + 1
    /\ idx' = idx + 1
    /\ pc' = "row"
    /\ UNCHANGED <<successes, fi>>

\* a resume branch that goes on to the next row without a record
RowSkipSilent ==
    /\ pc = "row"
    /\ idx < Len(df)
    /\ row_no \in processed
    /\ idx' = idx + 1
    /\ err' = PyNone
    /\ calls' = <<>>
    /\ UNCHANGED <<pc, args, cfg, df, outFile, processed, written, flushed,
                   outOpen, driver, fi, successes, fails, summary, exitCode>>

\* lines 129-131: the row is in the resume set
RowSkip ==
    /\ pc = "row"
    /\ idx < Len(df)
    /\ row_no \in processed
    /\ WriteRow("success", "skipped (resume)")
    /\ idx' = idx + 1
    /\ err' = PyNone
    /\ calls' = <<>>
    /\ UNCHANGED <<pc, args, cfg, df, outFile, processed, outOpen, driver, fi,
                   successes, fails, summary, exitCode>>

\* lines 133-139: validate_row gives a reason and the row is logged failed
RowInvalid ==
    /\ pc = "row"
    /\ idx < Len(df)
    /\ row_no \notin processed
    /\ LET e == validate_row(row_dict, cfg.fields) IN
        /\ e.t # "raise"
        /\ Truthy(e)
        /\ err' = e
        /\ WriteRow("failed", StrOf(e))
    /\ fails' = fails + 1
    /\ idx' = idx + 1
    /\ calls' = <<>>
    /\ UNCHANGED <<pc, args, cfg, df, outFile, processed, outOpen, driver, fi,
                   successes, summary, exitCode>>

\* line 135 raising: the exception leaves the loop through the finally
\* clause and ends the process
RowValidateRaises ==
    /\ pc = "row"
    /\ idx < Len(df)
    /\ row_no \notin processed
    /\ LET e == validate_row(row_dict, cfg.fields) IN
        /\ e.t = "raise"
        /\ err' = e
    /\ Finally
    /\ pc' = "raised"
    /\ exitCode' = 1
    /\ calls' = <<>>
    /\ UNCHANGED <<args, cfg, df, outFile, processed, written, idx, fi,
                   successes, fails, summary>>

\* lines 135-141: "if err" is false and the row enters the try block
RowValid ==
    /\ pc = "row"
    /\ idx < Len(df)
    /\ row_no \notin processed
    /\ LET e == validate_row(row_dict, cfg.fields) IN
        /\ e.t # "raise"
        /\ ~Truthy(e)
        /\ err' = e
    /\ calls' = <<>>
    /\ pc' = "nav"
    /\ UNCHANGED <<args, cfg, df, outFile, processed, written, flushed, outOpen,
                   driver, idx, fi, successes, fails, summary, exitCode>>

\* one call on the driver: what was called, with what, and what it raised
Call(op, arg, exc) == [op |-> op, arg |-> arg, exc |-> exc]

\* a fill that goes on to submit whatever --dry-run says
AfterFillAlwaysSubmits == "submit"

\* where the try block goes once every field is set (lines 150-160)
AfterFill == IF args.dry_run THEN "log" ELSE "submit"

\* line 142: driver.get(cfg["url"])
Navigate ==
    /\ pc = "nav"
    /\ \E exc \in {NoExc, Exc("TimeoutException", "Message: timeout"),
                   Exc("WebDriverException", "Message: session lost")} :
        /\ calls' = Append(calls, Call("get", PyStr(cfg.url), exc))
        /\ IF exc = NoExc
           THEN /\ pc' = IF Len(cfg.fields) > 0 THEN "fill" ELSE AfterFill
                /\ fi' = 1
                /\ UNCHANGED <<written, flushed, idx, successes, fails>>
           ELSE LogFailure(exc)
    /\ UNCHANGED <<args, cfg, df, outFile, processed, outOpen, driver, err,
                   summary, exitCode>>

\* a fill loop that forgets the default
FieldValueAsRead(rd, fields, i) == RowGet(rd, fields[i].col)

\* lines 145-147: the value given to set_field for the field at position i
FieldValue(rd, fields, i) ==
    LET val == RowGet(rd, fields[i].col) IN
    IF (val = PyNone \/ val = PyStr("")) /\ fields[i].rule.default # PyNone
    THEN fields[i].rule.default
    ELSE val

\* a fill loop that is left after its first turn
NextFillLeavesLoop(i) == AfterFill

\* line 144: after the field at position i the loop takes the next field,
\* or is over
NextFill(i) == IF i < Len(cfg.fields) THEN "fill" ELSE AfterFill

\* lines 144-148: one turn of the fill loop
SetField ==
    /\ pc = "fill"
    /\ \E elem \in Elements :
        LET val == FieldValue(row_dict, cfg.fields, fi)
            r == set_field(elem, cfg.fields[fi].rule, val)
        IN /\ calls' = Append(calls, Call("set_field", val, r.exc))
           /\ IF r.exc = NoExc
              THEN /\ pc' = NextFill(fi)
                   /\ fi' = fi + 1
                   /\ UNCHANGED <<written, flushed, idx, successes, fails>>
              ELSE LogFailure(r.exc)
    /\ UNCHANGED <<args, cfg, df, outFile, processed, outOpen, driver, err,
                   summary, exitCode>>

\* a submit that takes the click for the success
AfterSubmitAssumesSuccess == "log"

\* lines 154-159: the first wait of the success check, "log" when none
AfterSubmit ==
    LET sc == cfg.success_check IN
    IF sc = SuccessCheck(NoKey, NoKey) THEN "log"
    ELSE IF Truthy(DictGet(sc.selector, PyNone)) THEN "wait_visible"
    ELSE IF Truthy(DictGet(sc.text_contains, PyNone)) THEN "wait_text"
    ELSE "log"

\* line 152: find the submit control and click it
Submit ==
    /\ pc = "submit"
    /\ \E exc \in {NoExc, Exc("NoSuchElementException", "Message: no such element"),
                   Exc("WebDriverException", "Message: click intercepted")} :
        /\ calls' = Append(calls, Call("click", PyStr(cfg.submit_selector), exc))
        /\ IF exc = NoExc
           THEN /\ pc' = AfterSubmit
                /\ UNCHANGED <<written, flushed, idx, fi, successes, fails>>
           ELSE LogFailure(exc)
    /\ UNCHANGED <<args, cfg, df, outFile, processed, outOpen, driver, err,
                   summary, exitCode>>

\* lines 156-157: wait until the element of the success check is visible
WaitVisible ==
    /\ pc = "wait_visible"
    /\ \E exc \in {NoExc, Exc("TimeoutException", "Message: ")} :
        /\ calls' = Append(calls, Call("wait_visible", cfg.success_check.selector, exc))
        /\ IF exc = NoExc
           THEN /\ pc' = IF Truthy(DictGet(cfg.success_check.text_contains, PyNone))
                         THEN "wait_text" ELSE "log"
                /\ UNCHANGED <<written, flushed, idx, fi, successes, fails>>
           ELSE LogFailure(exc)
    /\ UNCHANGED <<args, cfg, df, outFile, processed, outOpen, driver, err,
                   summary, exitCode>>

\* lines 158-159: wait until the element holds the text; sc["selector"]
\* raises KeyError when the success check has no selector
WaitText ==
    /\ pc = "wait_text"
    /\ \E exc \in IF cfg.success_check.selector = NoKey
                  THEN {Exc("KeyError", "'selector'")}
                  ELSE {NoExc, Exc("TimeoutException", "Message: ")} :
        /\ calls' = Append(calls, Call("wait_text", cfg.success_check.text_contains, exc))
        /\ IF exc = NoExc
           THEN /\ pc' = "log"
                /\ UNCHANGED <<written, flushed, idx, fi, successes, fails>>
           ELSE LogFailure(exc)
    /\ UNCHANGED <<args, cfg, df, outFile, processed, outOpen, driver, err,
                   summary, exitCode>>

\* lines 160-161: the success record of the row
LogSuccess ==
    /\ pc = "log"
    /\ WriteRow("success", "")
    /\ successes' = successes + 1
    /\ idx' = idx + 1
    /\ pc' = "row"
    /\ UNCHANGED <<args, cfg, df, outFile, processed, outOpen, driver, fi, err,
                   calls, fails, summary, exitCode>>

\* lines 169-174: the loop is over; print the summary, close the log, quit
\* the browser and return 0
Finish ==
    /\ pc = "row"
    /\ idx = Len(df)
    /\ summary' = <<successes, fails>>
    /\ Finally
    /\ pc' = "done"
    /\ exitCode' = 0
    /\ UNCHANGED <<args, cfg, df, outFile, processed, written, idx, fi, err,
                   calls, successes, fails>>

\* the process is killed (or the machine stops) while the loop runs: its
\* memory is gone and what the buffer of out_f holds never reaches the disk;
\* idx, written and the counters stay as the record of how far the run got
Running == {"row", "nav", "fill", "submit", "wait_visible", "wait_text", "log"}
Kill ==
    /\ pc \in Running
    /\ pc' = "killed"
    /\ exitCode' = 137
    /\ cfg' = NoCfg
    /\ df' = <<>>
    /\ processed' = {}
    /\ fi' = 0
    /\ err' = PyNone
    /\ calls' = <<>>
    /\ UNCHANGED <<args, outFile, written, flushed, outOpen, driver, idx,
                   successes, fails, summary>>

\* the tool is run again on the same outcome log: what the ended run left
\* on disk is the log the next run finds (within the logs of PriorFiles)
Stopped == {"done", "raised", "exit", "killed"}
NextRun ==
    /\ pc \in Stopped
    /\ LET log == [exists |-> TRUE, lines |-> FileLines] IN
        /\ log \in PriorFiles
        /\ outFile' = log
    /\ pc' = "start"
    /\ args' = NoArgs
    /\ cfg' = NoCfg
    /\ df' = <<>>
    /\ processed' = {}
    /\ written' = <<>>
    /\ flushed' = 0
    /\ outOpen' = FALSE
    /\ driver' = "none"
    /\ idx' = 0
    /\ fi' = 0
    /\ err' = PyNone
    /\ calls' = <<>>
    /\ successes' = 0
    /\ fails' = 0
    /\ summary' = <<>>
    /\ exitCode' = -1

Next ==
    \/ StartRun
    \/ LaunchBrowser
    \/ RowSkip
    \/ RowInvalid
    \/ RowValidateRaises
    \/ RowValid
    \/ Navigate
    \/ SetField
    \/ Submit
    \/ WaitVisible
    \/ WaitText
    \/ LogSuccess
    \/ Finish
    \/ Kill
    \/ NextRun

Spec == Init /\ [][Next]_vars

(***************************************************************************)
(* validate_row called on its own, on rows whose cells take every form the *)
(* function provides for: a column the row lacks, None, NaN, "" and        *)
(* non-empty strings.  The row is held in df, the fields in cfg, the       *)
(* result in err and the values the fill loop resolves in calls.           *)
(***************************************************************************)
\* validators per field
MaxValidators == 2

RawCells == {NoKey, PyNone, PyNaN, PyStr(""), PyStr("US"), PyStr("bad")}

\* a dict with the columns whose cell is not NoKey
RawRow(email, country) ==
    [c \in {k \in {"email", "country"} :
              (k = "email" /\ email # NoKey) \/ (k = "country" /\ country # NoKey)} |->
        IF c = "email" THEN email ELSE country]

ValidatorChoices ==
    { Validator("regex", "[A-Z]+", <<>>, NoKey),
      Validator("regex", ".+@.+", <<>>, PyStr("bad email")),
      EnumCountry }

RuleChoices ==
    { FieldRule("#f", "input", required, default, validators) :
        required \in BOOLEAN, default \in {PyNone, PyStr("US")},
        validators \in SeqsUpTo(ValidatorChoices, MaxValidators) }

FieldChoices ==
    { << [col |-> "country", rule |-> r] >> : r \in RuleChoices } \cup
    { << [col |-> "country", rule |-> r],
         [col |-> "email", rule |-> EmailRule(<<ReEmail(NoKey)>>)] >> : r \in RuleChoices }

InitValidate ==
    /\ pc = "validate"
    /\ \E email \in RawCells, country \in RawCells :
           df = << [index |-> 0, cells |-> RawRow(email, country)] >>
    /\ \E fields \in FieldChoices : cfg = Mapping(fields, SuccessCheck(NoKey, NoKey))
    /\ outFile = NoFile
    /\ args = NoArgs
    /\ processed = {}
    /\ written = <<>>
    /\ flushed = 0
    /\ outOpen = FALSE
    /\ driver = "none"
    /\ idx = 0
    /\ fi = 0
    /\ err = PyNone
    /\ calls = <<>>
    /\ successes = 0
    /\ fails = 0
    /\ summary = <<>>
    /\ exitCode = -1

\* err = validate_row(row, fields)
ValidateRow ==
    /\ pc = "validate"
    /\ err' = validate_row(df[1].cells, cfg.fields)
    /\ pc' = "validated"
    /\ UNCHANGED <<args, cfg, df, outFile, processed, written, flushed, outOpen,
                   driver, idx, fi, calls, successes, fails, summary, exitCode>>

\* lines 133-148 for a row that passed "if err": the dict of line 133 and,
\* per field in declared order, the value line 148 gives to set_field
FillValues ==
    /\ pc = "validated"
    /\ err.t # "raise"
    /\ ~Truthy(err)
    /\ calls' = [i \in 1..Len(cfg.fields) |->
                    Call("set_field", FieldValue(row_dict, cfg.fields, i), NoExc)]
    /\ pc' = "filled"
    /\ UNCHANGED <<args, cfg, df, outFile, processed, written, flushed, outOpen,
                   driver, idx, fi, err, successes, fails, summary, exitCode>>

NextValidate == ValidateRow \/ FillValues

SpecValidate == InitValidate /\ [][NextValidate]_vars

(***************************************************************************)
(* coerce_truthy and the checkbox branch of set_field called on their own: *)
(* the value is held in err, the checkbox in df (its only entry), the      *)
(* result of coerce_truthy in summary, and the clicks of the last          *)
(* set_field in fi.                                                        *)
(***************************************************************************)
\* the strings given to coerce_truthy
CoerceStrings ==
    {"1", "true", "yes", "y", "on", "t", "YES", "Yes", "True", "TRUE", "On",
     "ON", "Y", "T", " yes ", "yes ", " 1", "0", "", " ", "no", "No", "US",
     "bad"}

CoerceValues == {PyNone, PyNaN} \cup {PyStr(x) : x \in CoerceStrings}

CheckboxRule == FieldRule("#agree", "checkbox", FALSE, PyNone, <<>>)

InitSetField ==
    /\ pc = "coerce"
    /\ err \in CoerceValues
    /\ \E selected \in BOOLEAN : df = << Element(FALSE, selected) >>
    /\ cfg = Mapping(<< [col |-> "agree", rule |-> CheckboxRule] >>,
                     SuccessCheck(NoKey, NoKey))
    /\ outFile = NoFile
    /\ args = NoArgs
    /\ processed = {}
    /\ written = <<>>
    /\ flushed = 0
    /\ outOpen = FALSE
    /\ driver = "running"
    /\ idx = 0
    /\ fi = 0
    /\ calls = <<>>
    /\ successes = 0
    /\ fails = 0
    /\ summary = <<>>
    /\ exitCode = -1

\* summary = <<coerce_truthy(value)>>
CoerceTruthy ==
    /\ pc = "coerce"
    /\ summary' = << coerce_truthy(err) >>
    /\ pc' = "set"
    /\ UNCHANGED <<args, cfg, df, outFile, processed, written, flushed, outOpen,
                   driver, idx, fi, err, calls, successes, fails, exitCode>>

\* set_field(driver, rule, value) on the checkbox, twice with the same value
SetCheckbox ==
    /\ pc = "set"
    /\ LET r == set_field(df[1], cfg.fields[1].rule, err) IN
        /\ df' = << r.elem >>
        /\ fi' = r.clicks
        /\ calls' = Append(calls, Call("set_field", err, r.exc))
    /\ pc' = IF Len(calls) = 1 THEN "set_twice" ELSE "set"
    /\ UNCHANGED <<args, cfg, outFile, processed, written, flushed, outOpen,
                   driver, idx, err, successes, fails, summary, exitCode>>

NextSetField == CoerceTruthy \/ SetCheckbox

SpecSetField == InitSetField /\ [][NextSetField]_vars

(***************************************************************************)
(* What the claims are stated over.                                        *)
(***************************************************************************)
\* the records this run gave to the writer, without the header line
RunRecords ==
    IF Len(written) > 0 /\ written[1] = Header THEN Tail(written) ELSE written

LastRecord == written[Len(written)]
LastCall == calls[Len(calls)]
RowNumber(line) == ParseInt(line.row)

SkipRecord(n) == CsvLine(DecStr(n), "success", "skipped (resume)")
SuccessRecord(n) == CsvLine(DecStr(n), "success", "")
FailedRecord(n, message) == CsvLine(DecStr(n), "failed", message)

\* the row is inside the try block of lines 141-161
TryBlock == {"nav", "fill", "submit", "wait_visible", "wait_text", "log"}

\* a loop iteration has just ended and its record is the last one written
RowLogged == pc \in {"row", "done"} /\ idx > 0

\* how many records satisfy a condition
Count(records, Cond(_)) == Cardinality({i \in 1..Len(records) : Cond(records[i])})

\* C1: when the row loop completes, exactly one outcome record has been
\* written per row of the sliced and filtered table (and, while it runs, one
\* per row considered so far), and the row numbers of the records written by
\* the run are strictly increasing, in the order of the rows in the source.
C1_OneRecordPerRow ==
    /\ pc \in {"row", "done"} => Len(RunRecords) = idx
    /\ pc = "done" =>
        /\ Len(RunRecords) = Len(df)
        /\ \A i, j \in 1..Len(RunRecords) :
             i < j => /\ RowNumber(RunRecords[i]) < RowNumber(RunRecords[j])
                      /\ df[i].index < df[j].index

\* a completed run of two rows, the first skipped by resume and the second
\* failed
C1_Witness ==
    /\ pc = "done"
    /\ Len(RunRecords) > 1
    /\ RunRecords[1].message = "skipped (resume)"
    /\ RunRecords[2].status = "failed"

\* the row numbers a log holds with status success, and those it holds
\* with status failed only
LoggedSuccess(lines) ==
    { RowNumber(lines[i]) : i \in {j \in 1..Len(lines) : lines[j].status = "success"} }
LoggedFailedOnly(lines) ==
    { RowNumber(lines[i]) : i \in {j \in 1..Len(lines) : lines[j].status = "failed"} }
        \ LoggedSuccess(lines)

\* C2: with resume enabled, every row whose number the prior log holds with
\* status success is recorded as success with message "skipped (resume)"
\* and is never validated, navigated to or filled; every row whose number
\* the prior log holds only with status failed is processed again.
C2_ResumeSkipsLoggedSuccess ==
    (args.resume /\ pc \in Running \cup {"done", "raised"}) =>
        /\ pc \in TryBlock \cup {"raised"} => row_no \notin LoggedSuccess(outFile.lines)
        /\ \A i \in 1..Len(RunRecords) :
             /\ RowNumber(RunRecords[i]) \in LoggedSuccess(outFile.lines)
                    => RunRecords[i] = SkipRecord(RowNumber(RunRecords[i]))
             /\ RowNumber(RunRecords[i]) \in LoggedFailedOnly(outFile.lines)
                    => RunRecords[i].message # "skipped (resume)"

\* C3: a row for which validate_row returns a failure reason is logged
\* failed with exactly that reason, and no call is made on the driver for
\* it: it never enters the try block.
C3_InvalidRowNeverTouchesForm ==
    err.t = "str" =>
        /\ pc \notin TryBlock
        /\ RowLogged => /\ LastRecord = FailedRecord(row_no - 1, err.s)
                        /\ calls = <<>>

FormErrors == {"TimeoutException", "NoSuchElementException"}

\* C4: whenever validation or a call on the driver fails for a row, the row
\* gets a failed record ("form error: <category>" for a timeout or a
\* missing element, the stringified error otherwise), and the loop goes on:
\* when it completes every row has its record.
C4_PerRowErrorsAreLogged ==
    /\ RowLogged =>
        /\ err.t = "str" => LastRecord.status = "failed"
        /\ (calls # <<>> /\ LastCall.exc.cls \in FormErrors)
              => LastRecord = FailedRecord(row_no - 1, "form error: " \o LastCall.exc.cls)
        /\ (calls # <<>> /\ LastCall.exc # NoExc /\ LastCall.exc.cls \notin FormErrors)
              => LastRecord = FailedRecord(row_no - 1, LastCall.exc.msg)
    /\ pc = "done" => Len(RunRecords) = Len(df)

\* C5: the row number written to the log, and compared with the resume
\* set, is the 1-based position of the row in the source, whatever start,
\* end and filter are.
C5_RowNumberIsSourcePosition ==
    pc \in Running \cup {"done", "raised"} =>
        /\ \A i \in 1..Len(RunRecords) : RowNumber(RunRecords[i]) = df[i].index + 1
        /\ idx < Len(df) => row_no = df[idx + 1].index + 1

\* the records of this run that are in the file on disk
DiskRecords ==
    LET onDisk == SubSeq(written, 1, flushed) IN
    IF Len(onDisk) > 0 /\ onDisk[1] = Header THEN Tail(onDisk) ELSE onDisk

\* C6: when the process is killed during the run, the record of every row
\* whose processing had finished is in the log on disk.
C6_FinishedRowsAreOnDisk ==
    pc = "killed" => DiskRecords = RunRecords

\* the calls of a row that was filled to the end: the navigation, then
\* set_field for every field in declared order with the value of lines
\* 145-147, none of them raising
FillCalls(rd) ==
    <<Call("get", PyStr(cfg.url), NoExc)>> \o
    [i \in 1..Len(cfg.fields) |->
        Call("set_field", FieldValue(rd, cfg.fields, i), NoExc)]

\* the row whose record was written last, as the dict of line 133
LastRowDict ==
    [c \in DOMAIN df[idx].cells |->
        IF IsNaN(df[idx].cells[c]) THEN PyNone ELSE df[idx].cells[c]]

\* C7: in dry-run mode the submit control is never clicked and the success
\* check is never polled; a row that passes validation is logged success
\* exactly when the navigation and every set_field raised nothing, and then
\* every mapped field has been set, in declared order.
C7_DryRunNeverSubmits ==
    args.dry_run =>
        /\ pc \notin {"submit", "wait_visible", "wait_text"}
        /\ \A i \in 1..Len(calls) : calls[i].op \in {"get", "set_field"}
        /\ pc = "log" => calls = FillCalls(row_dict)
        /\ (RowLogged /\ calls # <<>>) =>
             /\ LastRecord = SuccessRecord(row_no - 1)
                   <=> (\A i \in 1..Len(calls) : calls[i].exc = NoExc)
             /\ LastRecord.status = "success" => calls = FillCalls(LastRowDict)

\* a dry run has logged a row success after setting both fields
C7_Witness ==
    /\ args.dry_run
    /\ RowLogged
    /\ LastRecord = SuccessRecord(row_no - 1)
    /\ Len(calls) = Len(cfg.fields) + 1
    /\ Len(cfg.fields) > 1

IsSuccess(line) == line.status = "success" /\ line.message = ""
IsFailed(line) == line.status = "failed"
IsSkipped(line) == line.status = "success" /\ line.message = "skipped (resume)"

\* C8: when the loop completes (and after every row on the way),
\* successes counts exactly the records with status success and empty
\* message, fails exactly the failed records, and together with the rows
\* skipped by resume they add up to the rows considered; the summary
\* printed at the end carries the two counters.
C8_CountersAddUp ==
    /\ pc \in {"row", "done"} =>
        /\ successes = Count(RunRecords, IsSuccess)
        /\ fails = Count(RunRecords, IsFailed)
        /\ successes + fails + Count(RunRecords, IsSkipped) = idx
    /\ pc = "done" =>
        /\ idx = Len(df)
        /\ summary = <<successes, fails>>

\* a completed run with one row skipped by resume and one row failed
C8_Witness ==
    /\ pc = "done"
    /\ Len(df) > 1
    /\ Count(RunRecords, IsSkipped) = 1
    /\ fails = 1

\* the mapping has a field whose type is none of input, select, checkbox
UnknownKind(fields) ==
    \E i \in 1..Len(fields) : fields[i].rule.type \notin {"input", "select", "checkbox"}

RawCell(row, col) == IF col \in DOMAIN row THEN row[col] ELSE NoKey

\* C10: a field that is not required, or has a default, and whose cell is
\* empty (the column is absent, the cell is NaN, or the cell is the empty
\* string) never makes validate_row fail, whatever validators it declares.
C10_EmptyCellNeverFails ==
    (pc = "validated" /\
     \A i \in 1..Len(cfg.fields) :
        /\ RawCell(df[1].cells, cfg.fields[i].col) \in {NoKey, PyNaN, PyStr("")}
        /\ ~(cfg.fields[i].rule.required /\ cfg.fields[i].rule.default = PyNone))
    => err = PyNone

\* the checks of validate_row, numbered <<i, j>>: field i, and j = 0 for the
\* required check of line 38, j > 0 for validator j of the field
Checks(fields) ==
    { <<i, j>> : i \in 1..Len(fields), j \in 0..MaxValidators } \cap
    { p \in (1..Len(fields)) \X (0..MaxValidators) :
        p[2] <= Len(fields[p[1]].rule.validators) }

\* the declared order of the checks
Before(p, q) == p[1] < q[1] \/ (p[1] = q[1] /\ p[2] < q[2])

\* what one check, taken alone, says of the row
CheckAt(row, fields, p) ==
    LET col == fields[p[1]].col
        rule == fields[p[1]].rule
        val == RowGet(row, col)
    IN IF p[2] = 0
       THEN IF MissingRequired(val, rule)
            THEN PyStr("Missing required field: " \o col) ELSE Continue
       ELSE LET r == RegexCheck(col, val, rule.validators[p[2]]) IN
            IF r # Continue THEN r ELSE EnumCheck(col, val, rule.validators[p[2]])

\* the fields up to check p, everything declared after it cut off
UpTo(fields, p) ==
    [k \in 1..p[1] |->
        IF k < p[1] THEN fields[k]
        ELSE [col |-> fields[k].col,
              rule |-> [fields[k].rule EXCEPT !.validators = SubSeq(@, 1, p[2])]]]

\* the failing checks with no failing check before them
FirstFailing(row, fields) ==
    { p \in Checks(fields) :
        /\ CheckAt(row, fields, p) # Continue
        /\ \A q \in Checks(fields) :
              Before(q, p) => CheckAt(row, fields, q) = Continue }

\* C11: validate_row returns the reason of the first failing check, the
\* fields taken in declared order and, per field, the required check before
\* the validators in declared order; it returns None when no check fails;
\* nothing declared after the first failing check changes the result (so a
\* cell failing a regex validator gets that validator's reason even when
\* an enum validator after it passes).
C11_FirstFailingCheckWins ==
    pc = "validated" =>
        LET row == df[1].cells
            first == FirstFailing(row, cfg.fields)
        IN /\ first = {} => err = PyNone
           /\ \A p \in first :
                /\ err = CheckAt(row, cfg.fields, p)
                /\ err = validate_row(row, UpTo(cfg.fields, p))

\* the cell "US" fails the regex validator declared first and would pass
\* the enum validator declared after it; a second field follows
C11_Witness ==
    /\ pc = "validated"
    /\ Len(cfg.fields) = 2
    /\ cfg.fields[1].rule.validators =
          << Validator("regex", ".+@.+", <<>>, PyStr("bad email")), EnumCountry >>
    /\ RowGet(df[1].cells, "country") = PyStr("US")
    /\ RowGet(df[1].cells, "email") = PyNone
    /\ err = PyStr("bad email")

\* C12: a click toggles a checkbox; whatever the checkbox was and whatever
\* the value is, after set_field the checkbox is checked exactly when
\* coerce_truthy(value) holds, and a second set_field with the same value
\* makes no click and leaves it so.
C12_CheckboxSetIsIdempotent ==
    /\ (pc \in {"set", "set_twice"} /\ Len(calls) > 0) =>
          /\ df[1].selected = coerce_truthy(err)
          /\ calls[Len(calls)].exc = NoExc
    /\ pc = "set_twice" => fi = 0

\* a checkbox that was checked, set twice with a value that is not truthy
C12_Witness ==
    /\ pc = "set_twice"
    /\ err = PyStr("no")
    /\ ~df[1].selected
    /\ Len(calls) = 2

\* the characters of the strings given to coerce_truthy
Spelling(s) ==
    CASE s = "" -> <<>>
      [] s = "1" -> <<"1">>
      [] s = "true" -> <<"t", "r", "u", "e">>
      [] s = "yes" -> <<"y", "e", "s">>
      [] s = "y" -> <<"y">>
      [] s = "on" -> <<"o", "n">>
      [] s = "t" -> <<"t">>
      [] s = "YES" -> <<"Y", "E", "S">>
      [] s = "Yes" -> <<"Y", "e", "s">>
      [] s = "True" -> <<"T", "r", "u", "e">>
      [] s = "TRUE" -> <<"T", "R", "U", "E">>
      [] s = "On" -> <<"O", "n">>
      [] s = "ON" -> <<"O", "N">>
      [] s = "Y" -> <<"Y">>
      [] s = "T" -> <<"T">>
      [] s = " yes " -> <<" ", "y", "e", "s", " ">>
      [] s = "yes " -> <<"y", "e", "s", " ">>
      [] s = " 1" -> <<" ", "1">>
      [] s = "0" -> <<"0">>
      [] s = " " -> <<" ">>
      [] s = "no" -> <<"n", "o">>
      [] s = "No" -> <<"N", "o">>
      [] s = "US" -> <<"U", "S">>
      [] s = "bad" -> <<"b", "a", "d">>
      [] s = "nan" -> <<"n", "a", "n">>
      [] s = "None" -> <<"N", "o", "n", "e">>

\* a character without its case
FoldCase(c) ==
    CASE c = "E" -> "e" [] c = "N" -> "n" [] c = "O" -> "o" [] c = "R" -> "r"
      [] c = "S" -> "s" [] c = "T" -> "t" [] c = "U" -> "u" [] c = "Y" -> "y"
      [] OTHER -> c

EqualIgnoringCase(a, b) ==
    /\ Len(a) = Len(b)
    /\ \A i \in 1..Len(a) : FoldCase(a[i]) = FoldCase(b[i])

\* the characters without the blanks before and after them
RECURSIVE Trim(_)
Trim(a) ==
    IF Len(a) = 0 THEN a
    ELSE IF a[1] = " " THEN Trim(Tail(a))
    ELSE IF a[Len(a)] = " " THEN Trim(SubSeq(a, 1, Len(a) - 1))
    ELSE a

TruthyWords == {"1", "true", "yes", "y", "on", "t"}

\* C14 as claimed: coerce_truthy returns a boolean for every value, true
\* exactly when the stringified value is one of 1, true, yes, y, on, t
\* ignoring case.
C14_TruthyIgnoringCase ==
    pc \in {"set", "set_twice"} =>
        /\ summary[1] \in BOOLEAN
        /\ summary[1] <=>
              \E w \in TruthyWords :
                  EqualIgnoringCase(Spelling(StrOf(err)), Spelling(w))

\* C14 as amended: coerce_truthy returns a boolean for every value, true
\* exactly when the stringified value, without the whitespace before and
\* after it, is one of 1, true, yes, y, on, t ignoring case.
C14_TruthyIgnoringCaseAndBlanks ==
    pc \in {"set", "set_twice"} =>
        /\ summary[1] \in BOOLEAN
        /\ summary[1] <=>
              \E w \in TruthyWords :
                  EqualIgnoringCase(Trim(Spelling(StrOf(err))), Spelling(w))

\* "YES" was coerced to true
C14_Witness ==
    /\ pc = "set"
    /\ err = PyStr("YES")
    /\ summary = << TRUE >>

\* the waits lines 155-159 make for a success check, in their order
ConfiguredStages(sc) ==
    (IF Truthy(DictGet(sc.selector, PyNone)) THEN <<"wait_visible">> ELSE <<>>) \o
    (IF Truthy(DictGet(sc.text_contains, PyNone)) THEN <<"wait_text">> ELSE <<>>)

\* the position of the submit click among the calls of the row, 0 if none
ClickAt == IF \E i \in 1..Len(calls) : calls[i].op = "click"
           THEN CHOOSE i \in 1..Len(calls) : calls[i].op = "click"
           ELSE 0

WaitOps == {"wait_visible", "wait_text"}

\* C13: the success check is polled only after the submit click was made
\* (so never in a dry run) and only when the mapping configures one; with
\* none configured the row is logged success right after the click; a
\* timeout of either wait logs the row failed with "form error:
\* TimeoutException"; and a row that was submitted is logged success only
\* after every configured wait, in order, has held.
C13_SuccessCheckAfterSubmit ==
    /\ \A i \in 1..Len(calls) :
          calls[i].op \in WaitOps =>
            /\ ~args.dry_run
            /\ ConfiguredStages(cfg.success_check) # <<>>
            /\ ClickAt \in 1..(i - 1)
            /\ calls[ClickAt].exc = NoExc
    /\ pc \in WaitOps =>
          (ClickAt > 0 /\ calls[ClickAt].exc = NoExc /\ ~args.dry_run)
    /\ (calls # <<>> /\ LastCall = Call("click", PyStr(cfg.submit_selector), NoExc)
            /\ ConfiguredStages(cfg.success_check) = <<>>) =>
          \/ pc = "log"
          \/ RowLogged /\ LastRecord = SuccessRecord(row_no - 1)
    /\ (RowLogged /\ calls # <<>> /\ LastCall.op \in WaitOps
            /\ LastCall.exc.cls = "TimeoutException") =>
          LastRecord = FailedRecord(row_no - 1, "form error: TimeoutException")
    /\ (RowLogged /\ calls # <<>> /\ ~args.dry_run
            /\ LastRecord = SuccessRecord(row_no - 1)) =>
          /\ ClickAt > 0
          /\ [i \in 1..(Len(calls) - ClickAt) |-> calls[ClickAt + i].op]
                = ConfiguredStages(cfg.success_check)
          /\ \A i \in ClickAt..Len(calls) : calls[i].exc = NoExc

\* a row was logged success after the click and both waits
C13_Witness ==
    /\ RowLogged
    /\ LastRecord = SuccessRecord(row_no - 1)
    /\ Len(calls) > 2
    /\ calls[Len(calls) - 1].op = "wait_visible"
    /\ LastCall.op = "wait_text"

\* the row the calls on the driver belong to: the current one inside the
\* try block, the one just logged otherwise
CallsRow == IF pc \in TryBlock THEN row_dict ELSE LastRowDict

\* C15: for a row that entered the try block, the calls on the driver are,
\* in this order: the navigation to the mapping's url, then one set_field
\* per mapped field in declared order, then (never in a dry run) the submit
\* click, then the waits of the success check; a call that raises is the
\* last of the row, and a row logged success had every field set (and,
\* unless dry-run, the click made after them).
C15_FormInteractionsInOrder ==
    (pc \in TryBlock \/ RowLogged) =>
        LET n == Len(cfg.fields) IN
        /\ \A i \in 1..Len(calls) :
              /\ i = 1 => (calls[i].op = "get" /\ calls[i].arg = PyStr(cfg.url))
              /\ (i > 1 /\ i <= n + 1) =>
                    /\ calls[i].op = "set_field"
                    /\ calls[i].arg = FieldValue(CallsRow, cfg.fields, i - 1)
              /\ i = n + 2 => (calls[i].op = "click" /\ ~args.dry_run)
              /\ i > n + 2 => calls[i].op \in WaitOps
              /\ i < Len(calls) => calls[i].exc = NoExc
        /\ pc \in {"fill", "submit", "wait_visible", "wait_text", "log"} =>
              calls # <<>>
        /\ pc \in {"submit", "wait_visible", "wait_text", "log"} =>
              Len(calls) >= n + 1
        /\ (RowLogged /\ calls # <<>> /\ LastRecord = SuccessRecord(row_no - 1)) =>
              Len(calls) >= (IF args.dry_run THEN n + 1 ELSE n + 2)

\* a row was submitted and logged success after the navigation and the
\* setting of both fields
C15_Witness ==
    /\ RowLogged
    /\ ~args.dry_run
    /\ LastRecord = SuccessRecord(row_no - 1)
    /\ Len(cfg.fields) = 2
    /\ [i \in 1..Len(calls) |-> calls[i].op] = <<"get", "set_field", "set_field", "click">>

\* the cell is empty: the column is absent, or the cell is None, NaN or ""
EmptyCell(cell) == cell \in {NoKey, PyNone, PyNaN, PyStr("")}

\* C16: for a field with a default whose cell is empty (absent, null or
\* the empty string), required or not, validate_row never answers "Missing
\* required field" for it, and the fill loop gives set_field the default;
\* a cell that is not empty is given to set_field as it is.
C16_DefaultFillsEmptyCell ==
    \A i \in 1..Len(cfg.fields) :
        LET col == cfg.fields[i].col
            rule == cfg.fields[i].rule
            cell == RawCell(df[1].cells, col)
        IN /\ (pc \in {"validated", "filled"} /\ EmptyCell(cell)
                  /\ rule.default # PyNone) =>
                 err # PyStr("Missing required field: " \o col)
           /\ pc = "filled" =>
                 /\ calls[i].op = "set_field"
                 /\ (EmptyCell(cell) /\ rule.default # PyNone) =>
                       calls[i].arg = rule.default
                 /\ ~EmptyCell(cell) => calls[i].arg = cell

\* a required field with a default and a NaN cell passed validation and
\* the default was given to set_field
C16_Witness ==
    /\ pc = "filled"
    /\ cfg.fields[1].rule.required
    /\ cfg.fields[1].rule.default = PyStr("US")
    /\ RawCell(df[1].cells, "country") = PyNaN
    /\ calls[1].arg = PyStr("US")

\* the run loop was left: it completed, or an exception escaped it
LoopLeft == pc \in {"done", "raised"}

\* C17: the outcome log is opened once, before the loop; when the run loop
\* is left, by completing or by an exception escaping it, the log is closed
\* (all that was written is in the file) and the browser session is quit.
C17_LogClosedBrowserReleased ==
    /\ [](LoopLeft => (~outOpen /\ flushed = Len(written) /\ driver = "quit"))
    /\ [](pc \in Running => (outOpen /\ driver = "running"))
    /\ [][(outOpen' /\ ~outOpen) => (pc = "start" /\ pc' = "launch")]_vars

\* an exception escaped the loop after a row had been logged
C17_Witness ==
    /\ pc = "raised"
    /\ idx > 0
    /\ ~outOpen
    /\ driver = "quit"
    /\ flushed = Len(written)

\* the calls of a row that went through the whole try block: the
\* navigation, every set_field and, unless dry-run, the click and the
\* configured waits, none of them raising
CompletedCalls(rd) ==
    FillCalls(rd) \o
    (IF args.dry_run THEN <<>>
     ELSE <<Call("click", PyStr(cfg.submit_selector), NoExc)>> \o
          [i \in 1..Len(ConfiguredStages(cfg.success_check)) |->
              Call(ConfiguredStages(cfg.success_check)[i],
                   IF ConfiguredStages(cfg.success_check)[i] = "wait_visible"
                   THEN cfg.success_check.selector
                   ELSE cfg.success_check.text_contains,
                   NoExc)])

\* C18: a record with status success and empty message is written for a
\* row only if validate_row gave no reason for it, the navigation and every
\* set_field completed without error and, unless dry-run, so did the submit
\* click and every configured wait of the success check; and no row number
\* gets both a success and a failed record in one run.
C18_SuccessOnlyAfterAllSteps ==
    /\ (RowLogged /\ LastRecord = SuccessRecord(row_no - 1)) =>
          /\ err = PyNone
          /\ calls = CompletedCalls(LastRowDict)
    /\ \A i, j \in 1..Len(RunRecords) :
          (RunRecords[i].status = "success" /\ RunRecords[j].status = "failed")
              => RunRecords[i].row # RunRecords[j].row

\* C19: whatever runs have appended to the outcome log, the resume set of
\* a resume-enabled run holds a row number exactly when the log holds at
\* least one success record for it, whatever failed records the log also
\* holds for it and in whatever order; so a run with resume and no filter
\* skips every row the log holds as success: it never enters the try block
\* for it and writes "skipped (resume)" for it.
C19_ResumeSetIsLoggedSuccess ==
    (args.resume /\ pc \in {"launch", "exit", "done", "raised"} \cup Running) =>
        /\ processed = LoggedSuccess(outFile.lines)
        /\ args.filter.expr = "" =>
              /\ pc \in TryBlock => row_no \notin LoggedSuccess(outFile.lines)
              /\ \A i \in 1..Len(RunRecords) :
                    RowNumber(RunRecords[i]) \in LoggedSuccess(outFile.lines)
                        => RunRecords[i] = SkipRecord(RowNumber(RunRecords[i]))

====
